---- MODULE Spec2Model ----
(***************************************************************************)
(* Model of the session manager of the repository: the AuthProvider        *)
(* component (src/unnamed/part_002), its persistent store (AsyncStorage),  *)
(* the asynchronous operations loadStoredAuth, login, register and logout, *)
(* and the React commit that decides which screens are mounted.            *)
(*                                                                         *)
(* Every `await` of the source is a suspension point: an operation is a    *)
(* record in `ops` whose field pc names the await it is suspended at, and  *)
(* one action resumes it and runs it to its next await (or to its end).    *)
(***************************************************************************)
EXTENDS Integers, Sequences, FiniteSets, TLC

----------------------------------------------------------------------------
(* Bounds of the model                                                      *)

\* events of the environment in one run of the model: calls of login,
\* register and logout, restarts of the process, and requests through an
\* API service
MaxEvents == 2
\* operations suspended at the same time
MaxInFlight == 2
\* digits of the phone numbers given to the validators
MaxDigits == 16
\* calls of loadUsers in one run of the model, and fetches of a user the
\* environment may start while that many are pending
MaxLoads == 2

----------------------------------------------------------------------------
(* JavaScript values                                                        *)

\* null, undefined and a value whose typeof is not 'string'
Null == "<null>"
Undefined == "<undefined>"
NotAString == "<number>"

\* JavaScript truthiness of a string-or-null value: null, undefined and the
\* empty string are falsy
Truthy(v) == v \notin {Null, Undefined, ""}

\* typeof v === 'string'
IsString(v) == v \notin {Null, Undefined, NotAString}

\* a ?? b
Coalesce(a, b) == IF a \in {Null, Undefined} THEN b ELSE a

\* type User = {id, name, email}; the state `user` is User | null
NoUser == [id |-> Null, name |-> Null, email |-> Null]
MkUser(id, name, email) == [id |-> id, name |-> name, email |-> email]

Ids == {"1", "2"}
Names == {"A", "B"}
Emails == {"a@b.com", "b@c.com"}
UserValues == {MkUser(i, n, e) : i \in Ids, n \in Names, e \in Emails}

\* JSON.stringify of a User object
JSONStringify(u) ==
    "{\"id\":\"" \o u.id \o "\",\"name\":\"" \o u.name
        \o "\",\"email\":\"" \o u.email \o "\"}"

\* JSON.parse: the text of a User object parses to that object, the text
\* "null" parses to null, anything else throws a SyntaxError
JSONParse(s) ==
    IF \E u \in UserValues : JSONStringify(u) = s
    THEN [threw |-> FALSE, value |-> CHOOSE u \in UserValues : JSONStringify(u) = s]
    ELSE IF s = "null"
         THEN [threw |-> FALSE, value |-> NoUser]
         ELSE [threw |-> TRUE, value |-> NoUser]

----------------------------------------------------------------------------
(* The persistent store                                                     *)

TOKEN_KEY == "@auth_token"
USER_KEY == "@auth_user"
Keys == {TOKEN_KEY, USER_KEY}

\* the keys the API services read the token under
AUTH_TOKEN_KEY == "authToken"
tokenKey == "auth_token"
ApiKeys == {AUTH_TOKEN_KEY, tokenKey}

StoreKeys == Keys \cup ApiKeys

\* a store that holds nothing
EmptyStore == [k \in StoreKeys |-> Null]

\* a stored user value that is not JSON (written by another version of the
\* application, or damaged on the device)
CorruptText == "{\"id\":"

\* the message of the Error a failing AsyncStorage call rejects with
StorageErrorMessage == "Storage error"

\* what the device's store may hold under the two keys when the process starts
InitialTokens == {Null, "tkn0"}
InitialUsers == {Null, JSONStringify(MkUser("2", "B", "b@c.com")), CorruptText}
InitialStores ==
    {[k \in StoreKeys |-> IF k = TOKEN_KEY THEN t ELSE IF k = USER_KEY THEN u ELSE Null] :
        t \in InitialTokens, u \in InitialUsers}

----------------------------------------------------------------------------
(* Responses of the network                                                 *)

Body(id, name, email, tok, message) ==
    [id |-> id, name |-> name, email |-> email, token |-> tok, message |-> message]
NoBody == Body(Undefined, Undefined, Undefined, Undefined, Undefined)

\* transport = FALSE: fetch rejects; json = FALSE: the body is not JSON but
\* the text `text`
Response(status, body) ==
    [transport |-> TRUE, status |-> status, json |-> TRUE, body |-> body,
     text |-> Undefined]
RespOkA == Response(200, Body("1", "A", "a@b.com", "tkn", Undefined))
RespEmptyToken == Response(200, Body("2", "B", "b@c.com", "", Undefined))
RespNoToken == Response(200, Body("1", "A", "a@b.com", Undefined, Undefined))
RespNumericId == Response(200, Body(NotAString, "A", "a@b.com", "tkn", Undefined))
Resp401 == Response(401, Body(Undefined, Undefined, Undefined, Undefined, "bad creds"))
Resp401EmptyMessage == Response(401, Body(Undefined, Undefined, Undefined, Undefined, ""))
Resp500 == Response(500, NoBody)
RespText ==
    [transport |-> TRUE, status |-> 500, json |-> FALSE, body |-> NoBody,
     text |-> "Internal Server Error"]
RespNetworkFailure ==
    [transport |-> FALSE, status |-> 0, json |-> FALSE, body |-> NoBody,
     text |-> Undefined]
NoResponse ==
    [transport |-> FALSE, status |-> -1, json |-> FALSE, body |-> NoBody,
     text |-> Undefined]

\* the responses a fetch can resolve with
Responses ==
    {RespOkA, RespEmptyToken, RespNoToken, RespNumericId, Resp401,
     Resp401EmptyMessage, Resp500, RespText}

\* response.ok
ResponseOk(r) == r.status >= 200 /\ r.status <= 299

NetworkErrorMessage == "Network request failed"
JsonErrorMessage == "JSON Parse error"

----------------------------------------------------------------------------
(* The API services                                                         *)

\* the four ApiService classes of the repository
FetchApi == "frontend/services/api.ts"
FetchApi004 == "part_004"
AxiosApi005 == "part_005"
AxiosApi003 == "part_003"
Services == {FetchApi, FetchApi004, AxiosApi005, AxiosApi003}
AxiosServices == {AxiosApi005, AxiosApi003}

\* `Bearer ${token}`
Bearer(t) == "Bearer " \o t

\* a response to a request of an API service
\*   contentJson  its content-type includes application/json
\*   bodyJson     its body is JSON text, of the object {data, message}
ApiResponse(status, contentJson, bodyJson, data, message) ==
    [transport |-> TRUE, status |-> status, contentJson |-> contentJson,
     bodyJson |-> bodyJson, data |-> data, message |-> message]
ApiNetworkFailure ==
    [transport |-> FALSE, status |-> 0, contentJson |-> FALSE,
     bodyJson |-> FALSE, data |-> Undefined, message |-> Undefined]
NoApiResponse ==
    [transport |-> FALSE, status |-> -1, contentJson |-> FALSE,
     bodyJson |-> FALSE, data |-> Undefined, message |-> Undefined]

ApiResponses ==
    {ApiResponse(200, TRUE, TRUE, "users", Undefined),
     ApiResponse(200, FALSE, FALSE, "plain text", Undefined),
     ApiResponse(201, TRUE, FALSE, "", Undefined),
     ApiResponse(401, TRUE, TRUE, Undefined, "bad creds"),
     ApiResponse(404, FALSE, FALSE, "Not Found", Undefined),
     ApiResponse(500, TRUE, TRUE, Undefined, Undefined),
     ApiNetworkFailure}

\* what a call of an API service ends with
\*   threw      the promise is rejected, with an error of this message
\*   hasStatus  the value returned, or the error thrown, has a status
Returned(data, hasStatus, status) ==
    [threw |-> FALSE, data |-> data, hasStatus |-> hasStatus,
     status |-> status, message |-> Undefined]
Threw(message, hasStatus, status) ==
    [threw |-> TRUE, data |-> Undefined, hasStatus |-> hasStatus,
     status |-> status, message |-> message]
NoResult == Returned(Undefined, FALSE, -1)

ApiTimeoutMessage == "timeout of 15000ms exceeded"
AxiosNetworkMessage == "Network Error"
AxiosStatusMessage(status) == "Request failed with status code " \o ToString(status)

\* ApiService.request of frontend/services/api.ts, from the response on
FetchApiRequest(r) ==
    IF ~r.transport
    THEN Threw(NetworkErrorMessage, FALSE, -1)
    ELSE IF ~ResponseOk(r)
    THEN Threw("API request failed: " \o ToString(r.status), FALSE, -1)
    ELSE IF r.contentJson
    THEN IF r.bodyJson
         THEN Returned(r.data, FALSE, -1)
         ELSE Threw(JsonErrorMessage, FALSE, -1)
    ELSE Returned(r.data, FALSE, -1)

\* ApiService.request of part_004, from the response on
FetchApi004Request(r) ==
    IF ~r.transport
    THEN Threw(NetworkErrorMessage, FALSE, -1)
    ELSE IF ~r.bodyJson
    THEN Threw(JsonErrorMessage, FALSE, -1)
    ELSE Returned(r.data, TRUE, r.status)

\* a || b
Or(a, b) == IF Truthy(a) THEN a ELSE b

\* the response interceptors of part_005 and formatResponse
AxiosApi005Request(r) ==
    IF ~r.transport
    THEN Threw(Or(AxiosNetworkMessage, "An unexpected error occurred"), FALSE, -1)
    ELSE IF ~ResponseOk(r)
    THEN Threw(Or(IF r.bodyJson THEN r.message ELSE Undefined,
                  Or(AxiosStatusMessage(r.status), "An unexpected error occurred")),
               TRUE, r.status)
    ELSE Returned(r.data, TRUE, r.status)

\* handleErrorResponse and request of part_003
AxiosApi003Request(r) ==
    IF ~r.transport
    THEN Threw(AxiosNetworkMessage, FALSE, -1)
    ELSE IF ~ResponseOk(r)
    THEN Threw(AxiosStatusMessage(r.status), TRUE, r.status)
    ELSE Returned(r.data, FALSE, -1)

\* the Authorization header a service puts on a request, given the store
\* (the two fetch services send only the headers of their caller)
AuthorizationHeader(svc, st) ==
    IF svc = AxiosApi005
    THEN IF Truthy(st[AUTH_TOKEN_KEY]) THEN Bearer(st[AUTH_TOKEN_KEY]) ELSE Undefined
    ELSE IF svc = AxiosApi003
    THEN IF Truthy(st[tokenKey]) THEN Bearer(st[tokenKey]) ELSE Undefined
    ELSE Undefined

\* a request of an API service
\*   pc        "sent": awaiting the response; "done": the call has ended
\*   platform  it carries the X-Platform header
NoRequest ==
    [service |-> "none", pc |-> "none", authorization |-> Undefined,
     platform |-> FALSE, response |-> NoApiResponse, result |-> NoResult]

----------------------------------------------------------------------------
(* The validators and the registration form                                 *)

\* a string as the sequence of its characters; a value string | null |
\* undefined as a record
Str(chars) == [isNull |-> FALSE, chars |-> chars]
NullStr == [isNull |-> TRUE, chars |-> <<>>]

DigitChars == {"1"}
IsDigit(c) == c \in DigitChars
IsDigitOrPlus(c) == c \in DigitChars \cup {"+"}
IsNotPlus(c) == c # "+"
IsSpace(c) == c = " "

\* String.prototype.trim
RECURSIVE TrimStart(_)
TrimStart(s) ==
    IF s # <<>> /\ IsSpace(Head(s)) THEN TrimStart(Tail(s)) ELSE s
RECURSIVE TrimEnd(_)
TrimEnd(s) ==
    IF s # <<>> /\ IsSpace(s[Len(s)]) THEN TrimEnd(SubSeq(s, 1, Len(s) - 1)) ELSE s
Trim(s) == TrimEnd(TrimStart(s))

\* isRequired, of a string | null | undefined
isRequired(value) ==
    IF value.isNull THEN FALSE ELSE Len(Trim(value.chars)) > 0

AllDigits(s) == \A i \in 1..Len(s) : IsDigit(s[i])

\* /^\+?\d{7,15}$/.test(s)
MatchesPlusDigits7to15(s) ==
    LET rest == IF s # <<>> /\ Head(s) = "+" THEN Tail(s) ELSE s
    IN  AllDigits(rest) /\ Len(rest) >= 7 /\ Len(rest) <= 15

\* /^\d{10,15}$/.test(s)
MatchesDigits10to15(s) ==
    AllDigits(s) /\ Len(s) >= 10 /\ Len(s) <= 15

\* isPhoneNumberValid of validators.ts lines 40-48
isPhoneNumberValid7(phone) ==
    IF ~isRequired(phone)
    THEN FALSE
    ELSE LET cleaned == SelectSeq(phone.chars, IsDigitOrPlus)
             numericPart == SelectSeq(cleaned, IsNotPlus)
             digitCount == Len(numericPart)
             validLength == digitCount >= 7 /\ digitCount <= 15
         IN  validLength /\ MatchesPlusDigits7to15(cleaned)

\* isPhoneNumberValid of validators.ts lines 179-185
isPhoneNumberValid(phone) ==
    IF phone.isNull \/ phone.chars = <<>>
    THEN FALSE
    ELSE LET digits == SelectSeq(phone.chars, IsDigit)
         IN  MatchesDigits10to15(digits)

\* the two definitions called isPhoneNumberValid that './validators' may
\* resolve to
ValidatorModules == {"validators.ts:40", "validators.ts:179"}
isPhoneNumberValidOf(module, phone) ==
    IF module = "validators.ts:40"
    THEN isPhoneNumberValid7(phone)
    ELSE isPhoneNumberValid(phone)

PhoneError == "Phone number must contain 10-15 digits."

\* the phone numbers given to the validators: n digits, with or without a
\* prefix, with or without a separator after the third digit
DigitsOf(n) == [i \in 1..n |-> "1"]
PhonePrefixes == {<<>>, <<"+">>, <<"(">>, <<" ">>}
PhoneSeparators == {<<>>, <<"-">>, <<"+">>}
PhoneStrings ==
    {Str(pre \o DigitsOf(IF n < 3 THEN n ELSE 3) \o sep
            \o DigitsOf(IF n < 3 THEN 0 ELSE n - 3)) :
        pre \in PhonePrefixes, sep \in PhoneSeparators, n \in 0..MaxDigits}
PhoneInputs == PhoneStrings \cup {NullStr}

\* RegistrationScreen: the phone field, and what the last call of
\* isPhoneNumberValid or of handleSubmit gave
\*   called   "none", "isPhoneNumberValid" or "handleSubmit"
\*   module   the definition of isPhoneNumberValid that was called
\*   valid    what it returned
\*   errors   the messages handleSubmit collected for the phone
FormInit ==
    [phone |-> Str(<<>>), called |-> "none", module |-> "none",
     valid |-> FALSE, errors |-> {}]

----------------------------------------------------------------------------
(* The users application (src/unnamed/part_003): values                     *)

\* the users of the server as GET /users returns them: id is a number
Item(n) ==
    [id |-> n, name |-> IF n = 1 THEN "A" ELSE "B",
     email |-> IF n = 1 THEN "a@b.com" ELSE "b@c.com"]
MalformedItem == [id |-> 1, name |-> Undefined, email |-> "a@b.com"]
NoItem == [id |-> 0, name |-> Undefined, email |-> Undefined]
Items == {Item(1), Item(2)}

\* what a promise settles with
Resolved(data) == [threw |-> FALSE, message |-> Undefined, data |-> data]
Rejected(message) == [threw |-> TRUE, message |-> message]

\* parseUser of the object adapted from an item: id is String(item.id), a
\* string, and createdAt is a Date, so only name and email can be refused
parseUser(item) ==
    IF ~IsString(item.name)
    THEN Rejected("Invalid or missing \"name\" field")
    ELSE IF ~IsString(item.email)
    THEN Rejected("Invalid or missing \"email\" field")
    ELSE Resolved(MkUser(ToString(item.id), item.name, item.email))

\* an answer to a GET: transport = FALSE when fetch rejects, ok is
\* response.ok, json = FALSE when the body is not JSON
Answer(ok, body) == [transport |-> TRUE, ok |-> ok, json |-> TRUE, body |-> body]
UsersAnswers ==
    { Answer(TRUE, <<Item(1)>>), Answer(TRUE, <<Item(1), Item(2)>>),
      Answer(TRUE, <<MalformedItem>>), Answer(FALSE, <<>>),
      [transport |-> TRUE, ok |-> TRUE, json |-> FALSE, body |-> <<>>],
      [transport |-> FALSE, ok |-> FALSE, json |-> FALSE, body |-> <<>>] }

\* the answers to GET /users/{id}: the item with that id, or none
UserAnswers(id) ==
    { Answer(TRUE, it) : it \in {x \in Items : ToString(x.id) = id} }
        \cup { Answer(FALSE, NoItem),
               [transport |-> TRUE, ok |-> TRUE, json |-> FALSE, body |-> NoItem],
               [transport |-> FALSE, ok |-> FALSE, json |-> FALSE, body |-> NoItem] }

\* fetchUsers, from the answer on
fetchUsers(a) ==
    IF ~a.transport THEN Rejected(NetworkErrorMessage)
    ELSE IF ~a.ok THEN Rejected("Failed to fetch users")
    ELSE IF ~a.json THEN Rejected(JsonErrorMessage)
    ELSE LET parsed == [i \in 1..Len(a.body) |-> parseUser(a.body[i])]
             thrown == {i \in 1..Len(a.body) : parsed[i].threw}
         IN  IF thrown # {}
             THEN parsed[CHOOSE i \in thrown : \A j \in thrown : i <= j]
             ELSE Resolved([i \in 1..Len(a.body) |-> parsed[i].data])

\* fetchUserById, from the answer on
fetchUserById(a) ==
    IF ~a.transport THEN Rejected(NetworkErrorMessage)
    ELSE IF ~a.ok THEN Rejected("Failed to fetch user")
    ELSE IF ~a.json THEN Rejected(JsonErrorMessage)
    ELSE parseUser(a.body)

\* the load of UserProvider that was started last, once it has settled
NoLatest == [done |-> FALSE, threw |-> FALSE, message |-> Undefined, data |-> <<>>]

\* UserProvider after its mount: useState([]), useState(false),
\* useState(null), and the effect has called loadUsers
\*   loads    the pending calls of loadUsers, by their number
\*   started  the calls of loadUsers so far
\*   latest   how the call started last settled
UserProviderInit ==
    [users |-> <<>>, loading |-> TRUE, error |-> Null,
     loads |-> <<1>>, started |-> 1, latest |-> NoLatest]

\* UserDetailScreen before it is mounted; mounted, its state starts from
\* useState(null), useState(true), useState(null)
\*   loads    the userId of each pending loadUser
Unmounted ==
    [mounted |-> FALSE, userId |-> Null, user |-> NoUser, loading |-> TRUE,
     error |-> Null, loads |-> <<>>]

----------------------------------------------------------------------------
(* State                                                                    *)

VARIABLES
    user,       \* useState<User | null>
    token,      \* useState<string | null>
    loading,    \* useState<boolean>
    error,      \* useState<string | null>
    store,      \* AsyncStorage: key -> stored string, or Null when absent
    ops,        \* the suspended operations, in the order they were called
    last,       \* the operation that completed last since the last call
    view,       \* what the last committed render shows
    events,     \* calls, restarts and requests so far
    request,    \* the last request sent through an API service
    form,       \* RegistrationScreen
    userContext, \* UserProvider
    detail      \* UserDetailScreen

vars == <<user, token, loading, error, store, ops, last, view, events, request,
          form, userContext, detail>>

usersVars == <<userContext, detail>>

sessionVars == <<user, token, loading, error, store, ops, last, view, events,
                 request>>

NoReset == [route |-> "none", applied |-> FALSE]

\* what a consumer of the context reads from error, a string | null: the
\* value is the message, and it has no property kind or status
ErrorOf(e) == [message |-> e, kind |-> Undefined, status |-> Undefined]

\* the session is Authenticated (token non-null) iff the store holds both
\* keys, and then they hold the token and the user of the session
SessionMatchesStore ==
    /\ (token # Null) <=> (store[TOKEN_KEY] # Null /\ store[USER_KEY] # Null)
    /\ token # Null => /\ store[TOKEN_KEY] = token
                       /\ store[USER_KEY] = JSONStringify(user)

\* an operation suspended at the await named by pc
\*   resp        the response it received (login, register); for
\*               loadStoredAuth, the response whose credential the previous
\*               run of the process persisted last, if it ended with that
\*   wrote       a setItem of the operation has succeeded
\*   storedToken the value read under the token key (loadStoredAuth)
\*   overlapped  another operation was suspended while this one was
\*   superseded  logout was called while this login/register awaited the
\*               network
\*   cleared     such a logout has since cleared the session
\*   preToken    the token of the session when the operation was called
\*   preMatch    the session matched the store when it was called
\*   preStore    the store when it was called
\*   preUser     the user of the session when it was called
\*   hadError    the session showed an error when it was called
\*   reads       which of its reads of the store failed (loadStoredAuth)
\*   prev        what the loadStoredAuth of the previous run of the process
\*               ended with, if that run did nothing else
\*               (the three kept only while the operation runs alone)
NoPrev ==
    [reads |-> "none", token |-> Null, user |-> NoUser, error |-> Null,
     store |-> EmptyStore]

NewOp(kind, pc) ==
    [kind |-> kind, pc |-> pc, resp |-> NoResponse, storedToken |-> Null,
     overlapped |-> ops # <<>>, superseded |-> FALSE, cleared |-> FALSE,
     preToken |-> IF ops = <<>> THEN token ELSE Null,
     preMatch |-> ops = <<>> /\ SessionMatchesStore,
     preStore |-> IF ops = <<>> THEN store ELSE EmptyStore,
     preUser |-> IF ops = <<>> THEN user ELSE NoUser,
     hadError |-> error # Null, reads |-> "none", prev |-> NoPrev,
     wrote |-> FALSE]

NoOp ==
    [kind |-> "none", outcome |-> "none", cause |-> "none", threw |-> FALSE,
     resp |-> NoResponse, overlapped |-> FALSE, superseded |-> FALSE,
     cleared |-> FALSE, preToken |-> Null, preMatch |-> FALSE,
     preStore |-> EmptyStore, preUser |-> NoUser, reads |-> "none",
     prev |-> NoPrev,
     wrote |-> FALSE, reset |-> NoReset]

RemoveAt(s, i) == SubSeq(s, 1, i - 1) \o SubSeq(s, i + 1, Len(s))

\* the record kept of operation op when it ends
\*   outcome  "ok": it ran to the end of its try block; "failed": it ran
\*            its catch block, because of cause
\*   threw    the promise it returned is rejected
\*   reset    the navigation reset it asked for
Completed(op, outcome, cause, threw, reset) ==
    [kind |-> op.kind, outcome |-> outcome, cause |-> cause, threw |-> threw,
     resp |-> op.resp, overlapped |-> op.overlapped,
     superseded |-> op.superseded, cleared |-> op.cleared,
     preToken |-> op.preToken, preMatch |-> op.preMatch,
     preStore |-> op.preStore, preUser |-> op.preUser, reads |-> op.reads,
     prev |-> op.prev,
     wrote |-> op.wrote, reset |-> reset]

\* the suspended operations when one more is called: each of them now
\* overlaps, and a logout supersedes the logins and registers that await
\* the network
MarkOverlap(byLogout) ==
    [j \in 1..Len(ops) |->
        [ops[j] EXCEPT !.overlapped = TRUE,
                       !.preToken = Null,
                       !.preMatch = FALSE,
                       !.preStore = EmptyStore,
                       !.preUser = NoUser,
                       !.superseded = @ \/ /\ byLogout
                                            /\ ops[j].kind \in {"login", "register"}
                                            /\ ops[j].pc \in {"fetch", "json"}]]

\* the suspended operations when logout i has cleared the session
MarkCleared(i) ==
    LET rest == RemoveAt(ops, i)
    IN  [j \in 1..Len(rest) |-> [rest[j] EXCEPT !.cleared = rest[j].superseded]]

\* a consumer of the context can call an operation: the last committed
\* render provides the context (AuthProvider renders no consumer while it
\* shows the spinner)
CanCall ==
    /\ view # "spinner"
    /\ events < MaxEvents
    /\ Len(ops) < MaxInFlight

\* isAuthenticated: !!token
isAuthenticated == Truthy(token)

\* the screens a render of AuthProvider returns
RenderOf(l, t) ==
    IF l THEN "spinner" ELSE IF Truthy(t) THEN "home" ELSE "auth"

\* navigationRef.current?.reset(...): the ref is set only while the
\* NavigationContainer is mounted
navigateReset(name) == [route |-> name, applied |-> view # "spinner"]

\* the operation started by useEffect(() => { loadStoredAuth(); }, [])
RestoreOp ==
    [kind |-> "restore", pc |-> "getToken", resp |-> NoResponse,
     storedToken |-> Null, overlapped |-> FALSE, superseded |-> FALSE,
     cleared |-> FALSE, preToken |-> Null, preMatch |-> FALSE,
     preStore |-> EmptyStore, preUser |-> NoUser, hadError |-> FALSE,
     reads |-> "none",
     prev |-> NoPrev, wrote |-> FALSE]

Init ==
    /\ user = NoUser
    /\ token = Null
    /\ loading = TRUE
    /\ error = Null
    /\ store \in InitialStores
    /\ ops = <<RestoreOp>>
    /\ last = NoOp
    /\ view = "spinner"
    /\ events = 0
    /\ request = NoRequest
    /\ form = FormInit
    /\ userContext = UserProviderInit
    /\ detail = Unmounted

----------------------------------------------------------------------------
(* loadStoredAuth                                                           *)

LoadErrorMessage == "Failed to load stored authentication data."

\* loadStoredAuth without setLoading(false) when the read of the token
\* rejects
RestoreGetTokenKeepingLoading(i, ok) ==
    /\ ops[i].kind = "restore" /\ ops[i].pc = "getToken"
    /\ IF ok
       THEN /\ ops' = [ops EXCEPT ![i].storedToken = store[TOKEN_KEY],
                                  ![i].pc = "getUser"]
            /\ UNCHANGED <<error, loading, last>>
       ELSE /\ error' = LoadErrorMessage
            /\ UNCHANGED loading
            /\ ops' = RemoveAt(ops, i)
            /\ last' = Completed([ops[i] EXCEPT !.reads = "tokenFailed"],
                                  "failed", "storage", FALSE, NoReset)
    /\ UNCHANGED <<user, token, store, view, events, request>>

\* await AsyncStorage.getItem('@auth_token') settles
RestoreGetToken(i, ok) ==
    /\ ops[i].kind = "restore" /\ ops[i].pc = "getToken"
    /\ IF ok
       THEN /\ ops' = [ops EXCEPT ![i].storedToken = store[TOKEN_KEY],
                                  ![i].pc = "getUser"]
            /\ UNCHANGED <<error, loading, last>>
       ELSE /\ error' = LoadErrorMessage
            /\ loading' = FALSE
            /\ ops' = RemoveAt(ops, i)
            /\ last' = Completed([ops[i] EXCEPT !.reads = "tokenFailed"],
                                  "failed", "storage", FALSE, NoReset)
    /\ UNCHANGED <<user, token, store, view, events, request>>

\* loadStoredAuth removing the stored token when the stored user does not
\* parse
RestoreGetUserRemovingToken(i, ok) ==
    /\ ops[i].kind = "restore" /\ ops[i].pc = "getUser"
    /\ LET storedToken == ops[i].storedToken
           storedUser == store[USER_KEY]
           parsed == JSONParse(storedUser)
           op == [ops[i] EXCEPT !.reads = IF ok THEN "ok" ELSE "userFailed"]
       IN  IF ~ok
           THEN /\ error' = LoadErrorMessage
                /\ last' = Completed(op, "failed", "storage", FALSE, NoReset)
                /\ UNCHANGED <<user, token, store>>
           ELSE IF Truthy(storedToken) /\ Truthy(storedUser)
           THEN /\ token' = storedToken
                /\ IF parsed.threw
                   THEN /\ error' = LoadErrorMessage
                        /\ last' = Completed(op, "failed", "parse", FALSE, NoReset)
                        /\ store' = [store EXCEPT ![TOKEN_KEY] = Null]
                        /\ UNCHANGED user
                   ELSE /\ user' = parsed.value
                        /\ last' = Completed(op, "ok", "none", FALSE, NoReset)
                        /\ UNCHANGED <<error, store>>
           ELSE /\ last' = Completed(op, "ok", "none", FALSE, NoReset)
                /\ UNCHANGED <<user, token, error, store>>
    /\ loading' = FALSE
    /\ ops' = RemoveAt(ops, i)
    /\ UNCHANGED <<view, events, request>>

\* await AsyncStorage.getItem('@auth_user') settles
RestoreGetUser(i, ok) ==
    /\ ops[i].kind = "restore" /\ ops[i].pc = "getUser"
    /\ LET storedToken == ops[i].storedToken
           storedUser == store[USER_KEY]
           parsed == JSONParse(storedUser)
           op == [ops[i] EXCEPT !.reads = IF ok THEN "ok" ELSE "userFailed"]
       IN  IF ~ok
           THEN /\ error' = LoadErrorMessage
                /\ last' = Completed(op, "failed", "storage", FALSE, NoReset)
                /\ UNCHANGED <<user, token>>
           ELSE IF Truthy(storedToken) /\ Truthy(storedUser)
           THEN /\ token' = storedToken
                /\ IF parsed.threw
                   THEN /\ error' = LoadErrorMessage
                        /\ last' = Completed(op, "failed", "parse", FALSE, NoReset)
                        /\ UNCHANGED user
                   ELSE /\ user' = parsed.value
                        /\ last' = Completed(op, "ok", "none", FALSE, NoReset)
                        /\ UNCHANGED error
           ELSE /\ last' = Completed(op, "ok", "none", FALSE, NoReset)
                /\ UNCHANGED <<user, token, error>>
    /\ loading' = FALSE
    /\ ops' = RemoveAt(ops, i)
    /\ UNCHANGED <<store, view, events, request>>

----------------------------------------------------------------------------
(* The React commit and the life of the process                             *)

\* React commits a render of AuthProvider with the current state
Render ==
    /\ view # RenderOf(loading, token)
    /\ view' = RenderOf(loading, token)
    /\ UNCHANGED <<user, token, loading, error, store, ops, last, events, request>>

\* the process is killed and started again: the component state is
\* constructed anew, the suspended operations are lost, the store survives
Restart ==
    /\ events < MaxEvents
    /\ events' = events + 1
    /\ user' = NoUser
    /\ token' = Null
    /\ loading' = TRUE
    /\ error' = Null
    /\ ops' = <<[RestoreOp EXCEPT
                    !.resp = IF /\ ops = <<>>
                                /\ last.kind \in {"login", "register"}
                                /\ last.outcome = "ok"
                                /\ ~last.overlapped
                             THEN last.resp
                             ELSE NoResponse,
                    !.prev = IF ops = <<>> /\ last.kind = "restore"
                             THEN [reads |-> last.reads, token |-> token,
                                   user |-> user, error |-> error,
                                   store |-> store]
                             ELSE NoPrev]>>
    /\ last' = NoOp
    /\ view' = "spinner"
    /\ request' = NoRequest
    /\ UNCHANGED store

----------------------------------------------------------------------------
(* login                                                                   *)

loginFailedMessage == "Login failed."
loginInvalidMessage == "Invalid login response format."
loginUnexpectedMessage == "An unexpected error occurred during login."

\* handleLoginResponse without the check of data.token
handleLoginResponseNoTokenCheck(data) ==
    /\ IsString(data.id)
    /\ IsString(data.name)
    /\ IsString(data.email)

\* handleLoginResponse: the four fields are strings
handleLoginResponse(data) ==
    /\ IsString(data.id)
    /\ IsString(data.name)
    /\ IsString(data.email)
    /\ IsString(data.token)

\* login without its setError(null)
loginKeepingError ==
    /\ CanCall
    /\ loading' = TRUE
    /\ ops' = Append(MarkOverlap(FALSE), NewOp("login", "fetch"))
    /\ events' = events + 1
    /\ last' = NoOp
    /\ request' = NoRequest
    /\ UNCHANGED <<user, token, store, view, error>>

\* login up to its first await: fetch is sent
login ==
    /\ CanCall
    /\ loading' = TRUE
    /\ error' = Null
    /\ ops' = Append(MarkOverlap(FALSE), NewOp("login", "fetch"))
    /\ events' = events + 1
    /\ last' = NoOp
    /\ request' = NoRequest
    /\ UNCHANGED <<user, token, store, view>>

\* catch (e) { setError(e.message ?? ...); throw e } finally { setLoading(false) }
loginCatch(i, op, cause, message) ==
    /\ error' = Coalesce(message, loginUnexpectedMessage)
    /\ loading' = FALSE
    /\ ops' = RemoveAt(ops, i)
    /\ last' = Completed(op, "failed", cause, TRUE, NoReset)

\* await fetch(...) settles: with a response, or rejected
loginFetch(i, ok) ==
    /\ ops[i].kind = "login" /\ ops[i].pc = "fetch"
    /\ IF ok
       THEN /\ ops' = [ops EXCEPT ![i].pc = "json"]
            /\ UNCHANGED <<error, loading, last>>
       ELSE loginCatch(i, [ops[i] EXCEPT !.resp = RespNetworkFailure],
                       "transport", NetworkErrorMessage)
    /\ UNCHANGED <<user, token, store, view, events, request>>

\* await response.json() settles; the code runs on to the first setItem.
\* The code reads the response (its status, its body) only from here on, so
\* the response the server sent is drawn here.
loginJson(i, response) ==
    /\ ops[i].kind = "login" /\ ops[i].pc = "json"
    /\ response.transport
    /\ LET rawData == response.body
           op == [ops[i] EXCEPT !.resp = response]
       IN  IF ~response.json
           THEN /\ loginCatch(i, op, "json", JsonErrorMessage)
                /\ UNCHANGED <<user, token>>
           ELSE IF ~ResponseOk(response)
           THEN /\ loginCatch(i, op, "status",
                                Coalesce(rawData.message, loginFailedMessage))
                /\ UNCHANGED <<user, token>>
           ELSE IF ~handleLoginResponse(rawData)
           THEN /\ loginCatch(i, op, "format", loginInvalidMessage)
                /\ UNCHANGED <<user, token>>
           ELSE /\ user' = MkUser(rawData.id, rawData.name, rawData.email)
                /\ token' = rawData.token
                /\ ops' = [ops EXCEPT ![i] = [op EXCEPT !.pc = "setToken"]]
                /\ UNCHANGED <<error, loading, last>>
    /\ UNCHANGED <<store, view, events, request>>

\* await AsyncStorage.setItem('@auth_token', data.token) settles
loginSetToken(i, ok) ==
    /\ ops[i].kind = "login" /\ ops[i].pc = "setToken"
    /\ IF ok
       THEN /\ store' = [store EXCEPT ![TOKEN_KEY] = ops[i].resp.body.token]
            /\ ops' = [ops EXCEPT ![i].pc = "setUser", ![i].wrote = TRUE]
            /\ UNCHANGED <<error, loading, last>>
       ELSE /\ loginCatch(i, ops[i], "storage", StorageErrorMessage)
            /\ UNCHANGED store
    /\ UNCHANGED <<user, token, view, events, request>>

\* await AsyncStorage.setItem('@auth_user', JSON.stringify(loggedInUser)) settles
loginSetUser(i, ok) ==
    /\ ops[i].kind = "login" /\ ops[i].pc = "setUser"
    /\ LET data == ops[i].resp.body
           loggedInUser == MkUser(data.id, data.name, data.email)
       IN  IF ok
           THEN /\ store' = [store EXCEPT ![USER_KEY] = JSONStringify(loggedInUser)]
                /\ last' = Completed([ops[i] EXCEPT !.wrote = TRUE], "ok", "none",
                                      FALSE, navigateReset("Home"))
                /\ loading' = FALSE
                /\ ops' = RemoveAt(ops, i)
                /\ UNCHANGED error
           ELSE /\ loginCatch(i, ops[i], "storage", StorageErrorMessage)
                /\ UNCHANGED store
    /\ UNCHANGED <<user, token, view, events, request>>

----------------------------------------------------------------------------
(* register                                                                    *)

registerFailedMessage == "Registration failed."
registerInvalidMessage == "Invalid registration response format."
registerUnexpectedMessage == "An unexpected error occurred during registration."

\* handleRegisterResponse without the check of data.token
handleRegisterResponseNoTokenCheck(data) ==
    /\ IsString(data.id)
    /\ IsString(data.name)
    /\ IsString(data.email)

\* handleRegisterResponse: the four fields are strings
handleRegisterResponse(data) ==
    /\ IsString(data.id)
    /\ IsString(data.name)
    /\ IsString(data.email)
    /\ IsString(data.token)

\* register up to its first await: fetch is sent
register ==
    /\ CanCall
    /\ loading' = TRUE
    /\ error' = Null
    /\ ops' = Append(MarkOverlap(FALSE), NewOp("register", "fetch"))
    /\ events' = events + 1
    /\ last' = NoOp
    /\ request' = NoRequest
    /\ UNCHANGED <<user, token, store, view>>

\* catch (e) { setError(e.message ?? ...); throw e } finally { setLoading(false) }
registerCatch(i, op, cause, message) ==
    /\ error' = Coalesce(message, registerUnexpectedMessage)
    /\ loading' = FALSE
    /\ ops' = RemoveAt(ops, i)
    /\ last' = Completed(op, "failed", cause, TRUE, NoReset)

\* await fetch(...) settles: with a response, or rejected
registerFetch(i, ok) ==
    /\ ops[i].kind = "register" /\ ops[i].pc = "fetch"
    /\ IF ok
       THEN /\ ops' = [ops EXCEPT ![i].pc = "json"]
            /\ UNCHANGED <<error, loading, last>>
       ELSE registerCatch(i, [ops[i] EXCEPT !.resp = RespNetworkFailure],
                       "transport", NetworkErrorMessage)
    /\ UNCHANGED <<user, token, store, view, events, request>>

\* await response.json() settles; the code runs on to the first setItem.
\* The code reads the response (its status, its body) only from here on, so
\* the response the server sent is drawn here.
registerJson(i, response) ==
    /\ ops[i].kind = "register" /\ ops[i].pc = "json"
    /\ response.transport
    /\ LET rawData == response.body
           op == [ops[i] EXCEPT !.resp = response]
       IN  IF ~response.json
           THEN /\ registerCatch(i, op, "json", JsonErrorMessage)
                /\ UNCHANGED <<user, token>>
           ELSE IF ~ResponseOk(response)
           THEN /\ registerCatch(i, op, "status",
                                Coalesce(rawData.message, registerFailedMessage))
                /\ UNCHANGED <<user, token>>
           ELSE IF ~handleRegisterResponse(rawData)
           THEN /\ registerCatch(i, op, "format", registerInvalidMessage)
                /\ UNCHANGED <<user, token>>
           ELSE /\ user' = MkUser(rawData.id, rawData.name, rawData.email)
                /\ token' = rawData.token
                /\ ops' = [ops EXCEPT ![i] = [op EXCEPT !.pc = "setToken"]]
                /\ UNCHANGED <<error, loading, last>>
    /\ UNCHANGED <<store, view, events, request>>

\* await AsyncStorage.setItem('@auth_token', data.token) settles
registerSetToken(i, ok) ==
    /\ ops[i].kind = "register" /\ ops[i].pc = "setToken"
    /\ IF ok
       THEN /\ store' = [store EXCEPT ![TOKEN_KEY] = ops[i].resp.body.token]
            /\ ops' = [ops EXCEPT ![i].pc = "setUser", ![i].wrote = TRUE]
            /\ UNCHANGED <<error, loading, last>>
       ELSE /\ registerCatch(i, ops[i], "storage", StorageErrorMessage)
            /\ UNCHANGED store
    /\ UNCHANGED <<user, token, view, events, request>>

\* await AsyncStorage.setItem('@auth_user', JSON.stringify(newUser)) settles
registerSetUser(i, ok) ==
    /\ ops[i].kind = "register" /\ ops[i].pc = "setUser"
    /\ LET data == ops[i].resp.body
           newUser == MkUser(data.id, data.name, data.email)
       IN  IF ok
           THEN /\ store' = [store EXCEPT ![USER_KEY] = JSONStringify(newUser)]
                /\ last' = Completed([ops[i] EXCEPT !.wrote = TRUE], "ok", "none",
                                      FALSE, navigateReset("Home"))
                /\ loading' = FALSE
                /\ ops' = RemoveAt(ops, i)
                /\ UNCHANGED error
           ELSE /\ registerCatch(i, ops[i], "storage", StorageErrorMessage)
                /\ UNCHANGED store
    /\ UNCHANGED <<user, token, view, events, request>>

----------------------------------------------------------------------------
(* logout                                                                   *)

logoutUnexpectedMessage == "An unexpected error occurred during logout."

\* logout up to its first await: removeItem of the token key is sent
logout ==
    /\ CanCall
    /\ loading' = TRUE
    /\ error' = Null
    /\ ops' = Append(MarkOverlap(TRUE), NewOp("logout", "removeToken"))
    /\ events' = events + 1
    /\ last' = NoOp
    /\ request' = NoRequest
    /\ UNCHANGED <<user, token, store, view>>

\* catch (e) { setError(e.message ?? ...) } finally { setLoading(false) }
logoutCatch(i, message) ==
    /\ error' = Coalesce(message, logoutUnexpectedMessage)
    /\ loading' = FALSE
    /\ ops' = RemoveAt(ops, i)
    /\ last' = Completed(ops[i], "failed", "storage", FALSE, NoReset)

\* await AsyncStorage.removeItem('@auth_token') settles
logoutRemoveToken(i, ok) ==
    /\ ops[i].kind = "logout" /\ ops[i].pc = "removeToken"
    /\ IF ok
       THEN /\ store' = [store EXCEPT ![TOKEN_KEY] = Null]
            /\ ops' = [ops EXCEPT ![i].pc = "removeUser"]
            /\ UNCHANGED <<error, loading, last>>
       ELSE /\ logoutCatch(i, StorageErrorMessage)
            /\ UNCHANGED store
    /\ UNCHANGED <<user, token, view, events, request>>

\* await AsyncStorage.removeItem('@auth_user') settles
logoutRemoveUser(i, ok) ==
    /\ ops[i].kind = "logout" /\ ops[i].pc = "removeUser"
    /\ IF ok
       THEN /\ store' = [store EXCEPT ![USER_KEY] = Null]
            /\ user' = NoUser
            /\ token' = Null
            /\ last' = Completed(ops[i], "ok", "none", FALSE, navigateReset("Login"))
            /\ loading' = FALSE
            /\ ops' = MarkCleared(i)
            /\ UNCHANGED error
       ELSE /\ logoutCatch(i, StorageErrorMessage)
            /\ UNCHANGED <<store, user, token>>
    /\ UNCHANGED <<view, events, request>>

----------------------------------------------------------------------------
(* Requests through the API services                                        *)

\* get/post/put/delete/patch of a service up to the await of the response:
\* the request interceptor has read the store and the request is sent
ApiSend(svc) ==
    /\ request.pc # "sent"
    /\ events < MaxEvents
    /\ events' = events + 1
    /\ request' = [NoRequest EXCEPT !.service = svc,
                                    !.pc = "sent",
                                    !.authorization = AuthorizationHeader(svc, store),
                                    !.platform = (svc = AxiosApi005)]
    /\ UNCHANGED <<user, token, loading, error, store, ops, last, view>>

\* the response arrives and the call ends
ApiReceive(r) ==
    /\ request.pc = "sent"
    /\ request' = [request EXCEPT
                      !.pc = "done",
                      !.response = r,
                      !.result = CASE request.service = FetchApi -> FetchApiRequest(r)
                                   [] request.service = FetchApi004 -> FetchApi004Request(r)
                                   [] request.service = AxiosApi005 -> AxiosApi005Request(r)
                                   [] request.service = AxiosApi003 -> AxiosApi003Request(r)]
    /\ UNCHANGED <<user, token, loading, error, store, ops, last, view, events>>

\* axios gives up after `timeout: 15000`
ApiTimeout ==
    /\ request.pc = "sent"
    /\ request.service \in AxiosServices
    /\ request' = [request EXCEPT
                      !.pc = "done",
                      !.result = Threw(ApiTimeoutMessage, FALSE, -1)]
    /\ UNCHANGED <<user, token, loading, error, store, ops, last, view, events>>

\* setAuthToken of part_005 and part_003
setAuthToken(svc, tok) ==
    /\ svc \in AxiosServices
    /\ LET key == IF svc = AxiosApi005 THEN AUTH_TOKEN_KEY ELSE tokenKey
       IN  store' = [store EXCEPT ![key] = IF Truthy(tok) THEN tok ELSE Null]
    /\ UNCHANGED <<user, token, loading, error, ops, last, view, events, request>>

----------------------------------------------------------------------------
(* The specification                                                        *)

Next ==
    /\ \/ \E i \in 1..Len(ops), ok \in BOOLEAN : RestoreGetToken(i, ok)
       \/ \E i \in 1..Len(ops), ok \in BOOLEAN : RestoreGetUser(i, ok)
       \/ Render
       \/ Restart
       \/ login
       \/ \E i \in 1..Len(ops), ok \in BOOLEAN : loginFetch(i, ok)
       \/ \E i \in 1..Len(ops), r \in Responses : loginJson(i, r)
       \/ \E i \in 1..Len(ops), ok \in BOOLEAN : loginSetToken(i, ok)
       \/ \E i \in 1..Len(ops), ok \in BOOLEAN : loginSetUser(i, ok)
       \/ register
       \/ \E i \in 1..Len(ops), ok \in BOOLEAN : registerFetch(i, ok)
       \/ \E i \in 1..Len(ops), r \in Responses : registerJson(i, r)
       \/ \E i \in 1..Len(ops), ok \in BOOLEAN : registerSetToken(i, ok)
       \/ \E i \in 1..Len(ops), ok \in BOOLEAN : registerSetUser(i, ok)
       \/ logout
       \/ \E i \in 1..Len(ops), ok \in BOOLEAN : logoutRemoveToken(i, ok)
       \/ \E i \in 1..Len(ops), ok \in BOOLEAN : logoutRemoveUser(i, ok)
       \/ \E svc \in Services : ApiSend(svc)
    /\ UNCHANGED <<form, usersVars>>

Spec == Init /\ [][Next]_vars

\* The steps the runtime takes by itself: a call of AsyncStorage settles,
\* the body of a response that has arrived is read, React commits a render.
\* The answer of the network to a fetch is not among them: login and
\* register call fetch with no timeout and no AbortController, and nothing
\* makes a fetch settle.
Progress ==
    /\ \/ \E i \in 1..Len(ops), ok \in BOOLEAN : RestoreGetToken(i, ok)
       \/ \E i \in 1..Len(ops), ok \in BOOLEAN : RestoreGetUser(i, ok)
       \/ Render
       \/ \E i \in 1..Len(ops), r \in Responses : loginJson(i, r)
       \/ \E i \in 1..Len(ops), ok \in BOOLEAN : loginSetToken(i, ok)
       \/ \E i \in 1..Len(ops), ok \in BOOLEAN : loginSetUser(i, ok)
       \/ \E i \in 1..Len(ops), r \in Responses : registerJson(i, r)
       \/ \E i \in 1..Len(ops), ok \in BOOLEAN : registerSetToken(i, ok)
       \/ \E i \in 1..Len(ops), ok \in BOOLEAN : registerSetUser(i, ok)
       \/ \E i \in 1..Len(ops), ok \in BOOLEAN : logoutRemoveToken(i, ok)
       \/ \E i \in 1..Len(ops), ok \in BOOLEAN : logoutRemoveUser(i, ok)
    /\ UNCHANGED <<form, usersVars>>

LiveSpec == Spec /\ WF_vars(Progress)

\* The API services alone, called by a screen of the Unauthenticated
\* session over an empty store: nothing in the repository calls them, so
\* their callers are the environment.
ApiInit ==
    /\ user = NoUser
    /\ token = Null
    /\ loading = FALSE
    /\ error = Null
    /\ store = EmptyStore
    /\ ops = <<>>
    /\ last = NoOp
    /\ view = "auth"
    /\ events = 0
    /\ request = NoRequest
    /\ form = FormInit
    /\ userContext = UserProviderInit
    /\ detail = Unmounted

ApiTokens == {Null, "", "tkn"}

ApiNext ==
    /\ \/ \E svc \in Services : ApiSend(svc)
       \/ \E r \in ApiResponses : ApiReceive(r)
       \/ ApiTimeout
       \/ \E svc \in AxiosServices, tok \in ApiTokens : setAuthToken(svc, tok)
    /\ UNCHANGED <<form, usersVars>>

ApiSpec == ApiInit /\ [][ApiNext]_vars

----------------------------------------------------------------------------
(* The registration form and the validators                                 *)

\* onChangeText of the phone field
setPhone(p) ==
    /\ ~p.isNull
    /\ form' = [FormInit EXCEPT !.phone = p]
    /\ UNCHANGED <<sessionVars, usersVars>>

\* handleSubmit, its check of the phone
handleSubmit(module) ==
    /\ form.called = "none"
    /\ LET phone == form.phone
           valid == isPhoneNumberValidOf(module, phone)
       IN  form' = [form EXCEPT
                      !.called = "handleSubmit",
                      !.module = module,
                      !.valid = valid,
                      !.errors = IF phone.chars # <<>> /\ ~valid
                                 THEN {PhoneError}
                                 ELSE {}]
    /\ UNCHANGED <<sessionVars, usersVars>>

\* a call isPhoneNumberValid(p), as the tests of the validators make it
callIsPhoneNumberValid(module, p) ==
    /\ form.called = "none"
    /\ form.phone = Str(<<>>)
    /\ form' = [form EXCEPT !.phone = p,
                            !.called = "isPhoneNumberValid",
                            !.module = module,
                            !.valid = isPhoneNumberValidOf(module, p)]
    /\ UNCHANGED <<sessionVars, usersVars>>

\* the session of ApiInit, the form shown
ValidatorInit == ApiInit

ValidatorNext ==
    \/ \E p \in PhoneStrings : setPhone(p)
    \/ \E module \in ValidatorModules : handleSubmit(module)
    \/ \E module \in ValidatorModules, p \in PhoneInputs :
            callIsPhoneNumberValid(module, p)

ValidatorSpec == ValidatorInit /\ [][ValidatorNext]_vars

----------------------------------------------------------------------------
(* The users application: UserProvider and UserDetailScreen                 *)

\* loadUser of the effect of UserDetailScreen up to its await: the effect
\* runs when the screen is mounted and when userId or getUser has changed
loadUser(d) ==
    IF d.mounted
    THEN [d EXCEPT !.loading = TRUE, !.error = Null,
                   !.loads = Append(@, d.userId)]
    ELSE d

\* UserProvider renders again when its state has changed; getUser is a new
\* function in every render, so the effect of a mounted UserDetailScreen
\* runs again
UserProviderCommit(changed) ==
    detail' = IF changed THEN loadUser(detail) ELSE detail

\* refresh: loadUsers up to its await
refresh ==
    /\ userContext.started < MaxLoads
    /\ userContext' = [userContext EXCEPT
                          !.loading = TRUE,
                          !.error = Null,
                          !.loads = Append(@, userContext.started + 1),
                          !.started = @ + 1,
                          !.latest = NoLatest]
    /\ UserProviderCommit(~userContext.loading \/ userContext.error # Null)
    /\ UNCHANGED <<sessionVars, form>>

\* loadUsers from its await on: fetchUsers settles
loadUsersSettle(i, a) ==
    /\ i \in 1..Len(userContext.loads)
    /\ LET r == fetchUsers(a)
       IN  /\ userContext' = [userContext EXCEPT
                  !.users = IF r.threw THEN @ ELSE r.data,
                  !.error = IF r.threw THEN r.message ELSE @,
                  !.loading = FALSE,
                  !.loads = RemoveAt(@, i),
                  !.latest = IF userContext.loads[i] = userContext.started
                             THEN [done |-> TRUE, threw |-> r.threw,
                                   message |-> r.message,
                                   data |-> IF r.threw THEN <<>> ELSE r.data]
                             ELSE @]
           /\ UserProviderCommit(\/ ~r.threw
                                 \/ userContext.loading
                                 \/ r.message # userContext.error)
    /\ UNCHANGED <<sessionVars, form>>

\* navigation.navigate('UserDetail', { userId: item.id }) of an item of the
\* list: the screen is mounted and its effect runs
navigate(id) ==
    /\ ~detail.mounted
    /\ \E i \in 1..Len(userContext.users) : userContext.users[i].id = id
    /\ detail' = loadUser([Unmounted EXCEPT !.mounted = TRUE, !.userId = id])
    /\ UNCHANGED <<sessionVars, form, userContext>>

\* the route parameter of the mounted screen changes: the effect runs again
setParams(id) ==
    /\ detail.mounted
    /\ id # detail.userId
    /\ Len(detail.loads) < MaxLoads
    /\ detail' = loadUser([detail EXCEPT !.userId = id])
    /\ UNCHANGED <<sessionVars, form, userContext>>

\* loadUser from its await on: getUser(userId) settles
loadUserSettle(i, a) ==
    /\ detail.mounted
    /\ i \in 1..Len(detail.loads)
    /\ a \in UserAnswers(detail.loads[i])
    /\ LET r == fetchUserById(a)
       IN  detail' = [detail EXCEPT
                         !.user = IF r.threw THEN @ ELSE r.data,
                         !.error = IF r.threw THEN r.message ELSE @,
                         !.loading = FALSE,
                         !.loads = RemoveAt(@, i)]
    /\ UNCHANGED <<sessionVars, form, userContext>>

UsersInit == ApiInit

UsersNext ==
    \/ refresh
    \/ \E i \in 1..MaxLoads, a \in UsersAnswers : loadUsersSettle(i, a)
    \/ \E id \in Ids : navigate(id)
    \/ \E id \in Ids : setParams(id)
    \/ \E i \in 1..(3 * MaxLoads) :
            \E a \in UNION {UserAnswers(id) : id \in Ids} : loadUserSettle(i, a)

UsersSpec == UsersInit /\ [][UsersNext]_vars

----------------------------------------------------------------------------
(* Properties                                                               *)

Mutating == {"login", "register", "logout"}
Authenticating == {"login", "register"}

\* no operation is suspended
Quiescent == ops = <<>>

\* the number of login/register/logout operations in flight
MutatingInFlight == Cardinality({j \in 1..Len(ops) : ops[j].kind \in Mutating})

\* a body of a success response that lacks one of the four string fields
LacksStringField(body) ==
    \E f \in {"id", "name", "email", "token"} : ~IsString(body[f])

\* a response with a success status and the four string fields
CompleteSuccess(r) ==
    r.transport /\ r.json /\ ResponseOk(r) /\ ~LacksStringField(r.body)

ResponseUser(r) == MkUser(r.body.id, r.body.name, r.body.email)

StoreHoldsBoth == store[TOKEN_KEY] # Null /\ store[USER_KEY] # Null
StoreHoldsNeither == store[TOKEN_KEY] = Null /\ store[USER_KEY] = Null

\* C1: when logout() is called while the network call of a login() or
\* register() is pending and clears the session, then once both have
\* completed the session is Unauthenticated (token and user null) and the
\* superseded login or register has written nothing to the store: its late
\* response is discarded.
C1_LateLoginDiscarded ==
    (Quiescent /\ last.kind \in Authenticating /\ last.cleared)
        => (token = Null /\ user = NoUser /\ ~last.wrote)

\* C2: at most one of login, register, logout is in flight: a call made
\* while one of them is in flight is a no-op, it starts no operation and
\* changes neither the session state nor the store.
C2_SecondCallRejected ==
    [][(MutatingInFlight >= 1 /\ events' = events + 1 /\ request'.pc # "sent"
            /\ ops'[1].kind # "restore")
        => (ops' = ops /\ UNCHANGED <<user, token, loading, error, store>>)]_vars

\* C3: whenever no operation is in flight, the session is Authenticated
\* (token non-null) iff the store holds both keys, with the token and the
\* user of the session. Stated of each login, register and logout that ran
\* alone: if that held when it was called, it holds when it has completed,
\* also when it met a storage failure.
C3_AuthenticatedIffStored ==
    (Quiescent /\ last.kind \in Mutating /\ ~last.overlapped /\ last.preMatch)
        => SessionMatchesStore

\* C4: a restore whose reads succeed ends Authenticated only when the stored
\* token and the stored user are both present and the user parses; otherwise
\* it ends with token null, user null and no error; it never ends with one
\* of token and user set and the other null.
C4_RestoreAllOrNothing ==
    (Quiescent /\ last.kind = "restore" /\ last.cause # "storage")
        => LET valid == /\ Truthy(store[TOKEN_KEY])
                        /\ Truthy(store[USER_KEY])
                        /\ ~JSONParse(store[USER_KEY]).threw
           IN  /\ token # Null => valid
               /\ ~valid => (token = Null /\ user = NoUser /\ error = Null)
               /\ (token = Null) <=> (user = NoUser)

\* C5: logout always ends Unauthenticated (token null, user null), from any
\* state and also when a removeItem fails.
C5_LogoutAlwaysClears ==
    (Quiescent /\ last.kind = "logout") => (token = Null /\ user = NoUser)

\* C6: a storage failure during restore (getItem) or logout (removeItem)
\* does not populate the session error: when the operation has completed,
\* error is absent.
C6_StorageFailureNotSurfaced ==
    (Quiescent /\ last.kind \in {"restore", "logout"} /\ last.cause = "storage")
        => error = Null

\* C7: a restore that finds only one of the two keys removes the leftover:
\* after a restore whose reads succeeded has ended Unauthenticated, the
\* store does not hold one key without the other.
C7_RestoreRemovesLeftover ==
    (Quiescent /\ last.kind = "restore" /\ last.cause # "storage" /\ token = Null)
        => (StoreHoldsBoth \/ StoreHoldsNeither)

\* C8: a login that received a success status with string fields id, name,
\* email and token (alone in flight, its store writes succeeding) ends
\* Authenticated with the user and the token of the response and with both
\* written to the store; and the restore of the next run of the process, its
\* reads succeeding, ends Authenticated with the same user and token.
C8_LoginPersistsCredential ==
    /\ (Quiescent /\ last.kind = "login" /\ ~last.overlapped
            /\ CompleteSuccess(last.resp) /\ last.cause # "storage")
        => /\ isAuthenticated
           /\ user = ResponseUser(last.resp)
           /\ token = last.resp.body.token
           /\ store[TOKEN_KEY] = last.resp.body.token
           /\ store[USER_KEY] = JSONStringify(ResponseUser(last.resp))
    /\ (Quiescent /\ last.kind = "restore" /\ last.cause # "storage"
            /\ CompleteSuccess(last.resp))
        => /\ isAuthenticated
           /\ user = ResponseUser(last.resp)
           /\ token = last.resp.body.token

\* C9: a login or register that fails for any reason, called with no
\* credential in the session (and alone in flight), ends Unauthenticated
\* (token null, user null) with error populated.
C9_FailedLoginUnauthenticated ==
    (Quiescent /\ last.kind \in Authenticating /\ last.outcome = "failed"
        /\ last.preToken = Null /\ ~last.overlapped)
        => (token = Null /\ user = NoUser /\ error # Null)

\* C10: a login that receives a success status whose body lacks a string
\* id, name, email or token fails as a whole: the step that handles the
\* response ends the login as failed, leaves user, token and the store as
\* they are, the login has written nothing to the store, and (no other
\* operation overlapping) token is what it was when login was called.
C10_MalformedSuccessRejected ==
    [][(/\ Len(ops') < Len(ops)
        /\ last'.kind = "login"
        /\ last'.resp.transport /\ last'.resp.json /\ ResponseOk(last'.resp)
        /\ LacksStringField(last'.resp.body))
        => /\ last'.outcome = "failed"
           /\ ~last'.wrote
           /\ UNCHANGED <<user, token, store>>
           /\ ~last'.overlapped => token' = last'.preToken]_vars

\* a login answered with a success status and no token has ended, the
\* session being as it was when it was called
C10_Witness ==
    /\ Quiescent
    /\ last.kind = "login"
    /\ last.resp = RespNoToken
    /\ last.outcome = "failed"
    /\ token = last.preToken
    /\ user = NoUser
    /\ StoreHoldsNeither

\* C11: a failed login() or register() (alone in flight) leaves the store as
\* it was when it was called: both keys hold the values they held before the
\* call, also when the failure is a write error on the second key after the
\* first key was written.
C11_FailedLoginKeepsStore ==
    (Quiescent /\ last.kind \in Authenticating /\ last.outcome = "failed"
        /\ ~last.overlapped)
        => store = last.preStore

\* the root a completed operation leads to: the authenticated root after a
\* successful login or register and after a restore that found a
\* credential, the unauthenticated root otherwise
ExpectedRoot ==
    IF \/ last.kind \in Authenticating /\ last.outcome = "ok"
       \/ last.kind = "restore" /\ token # Null
    THEN "Home"
    ELSE "Login"

\* C12: every completed transition (a restore, a logout, a login or register
\* that succeeded, or failed with no credential in the session before) has
\* fired exactly one navigation reset, to the root the transition leads to,
\* and the reset reached a mounted navigator.
C12_ResetOncePerTransition ==
    (/\ Quiescent
     /\ last.kind # "none"
     /\ ~last.overlapped
     /\ (last.kind \in Authenticating /\ last.outcome = "failed")
            => last.preToken = Null)
        => last.reset = [route |-> ExpectedRoot, applied |-> TRUE]

\* C13: the screens of every committed render that mounts the navigator
\* match the authentication state: Home is registered iff token is non-null,
\* Login and Register iff token is null.
C13_ScreensMatchToken ==
    [][(view' # view /\ view' # "spinner")
        => ((view' = "home") <=> (token # Null))]_vars

\* C14: a login() (alone in flight, no credential in the session before)
\* answered with status 401 and body {message: m} ends Unauthenticated with
\* an error of kind Unauthorized, message m and status 401.
C14_UnauthorizedError ==
    (/\ Quiescent
     /\ last.kind = "login"
     /\ ~last.overlapped
     /\ last.preToken = Null
     /\ last.resp.transport /\ last.resp.json
     /\ last.resp.status = 401
     /\ IsString(last.resp.body.message))
        => /\ token = Null
           /\ user = NoUser
           /\ ErrorOf(error).message = last.resp.body.message
           /\ ErrorOf(error).kind = "Unauthorized"
           /\ ErrorOf(error).status = 401

\* C15: login() and register() never throw to their caller: the promise of
\* a completed login or register is resolved, whatever its outcome.
C15_LoginNeverThrows ==
    (Quiescent /\ last.kind \in Authenticating) => ~last.threw

\* a call of login, register or logout
IsCall == Len(ops') = Len(ops) + 1 /\ ops'[Len(ops')].kind \in Mutating

\* C16: every call of login, register or logout clears the error before the
\* operation's first suspension point, and while the operation runs alone
\* the error stays cleared: no state after its start shows the error of an
\* earlier operation.
C16_ErrorClearedAtStart ==
    [][/\ IsCall => error' = Null
       /\ (Len(ops') = 1 /\ ops'[1].kind \in Mutating /\ ~ops'[1].overlapped)
            => error' = Null]_vars

\* a login, register or logout called while the session showed an error is
\* suspended at its first await, and the error is cleared
C16_Witness ==
    \E j \in 1..Len(ops) :
        /\ ops[j].kind \in Mutating
        /\ ops[j].pc \in {"fetch", "removeToken"}
        /\ ops[j].hadError
        /\ error = Null

\* C17: restore run twice in sequence ends as restore run once: when the
\* process is started again right after a restore and the second restore
\* meets the same read failures as the first, it ends with the token, user,
\* error and store contents the first ended with.
C17_RestoreIdempotent ==
    (/\ Quiescent
     /\ last.kind = "restore"
     /\ last.prev # NoPrev
     /\ last.prev.reads = last.reads)
        => /\ token = last.prev.token
           /\ user = last.prev.user
           /\ error = last.prev.error
           /\ store = last.prev.store

\* the second of two restores has ended as the first, with a credential
\* found in the store
C17_Witness ==
    /\ Quiescent
    /\ last.kind = "restore"
    /\ last.prev # NoPrev
    /\ last.prev.reads = "ok"
    /\ last.reads = "ok"
    /\ token = "tkn0"
    /\ token = last.prev.token
    /\ user = last.prev.user

\* a credential exists: a login or register has completed successfully and
\* nothing has been called since
CredentialExists ==
    /\ Quiescent
    /\ last.kind \in Authenticating
    /\ last.outcome = "ok"
    /\ ~last.overlapped

\* C18: while a credential exists, every request sent through an API
\* service carries the header Authorization: Bearer <the token of the
\* credential>.
C18_RequestsCarryToken ==
    [][(CredentialExists /\ request' # request /\ request'.pc = "sent")
        => request'.authorization = Bearer(last.resp.body.token)]_vars

\* C19: every call of a request pipeline that received a response ends by
\* returning the body of the response when the status is a success status,
\* and by failing with an error that carries the status of the response
\* otherwise.
C19_RequestPipeline ==
    (request.pc = "done" /\ request.response.transport)
        => IF ResponseOk(request.response)
           THEN /\ ~request.result.threw
                /\ request.result.data = request.response.data
           ELSE /\ request.result.threw
                /\ request.result.hasStatus
                /\ request.result.status = request.response.status

\* a login or register is in flight
LoginInFlight == \E j \in 1..Len(ops) : ops[j].kind \in Authenticating

\* C20: every started login or register eventually completes, loading
\* returning to false, also when the network never answers its request.
C20_LoginEventuallyCompletes ==
    LoginInFlight ~> (~LoginInFlight /\ ~loading)

\* the fixed default texts of login and register
DefaultTexts ==
    {loginFailedMessage, loginInvalidMessage, loginUnexpectedMessage,
     registerFailedMessage, registerInvalidMessage, registerUnexpectedMessage}

\* an error message, the fixed default texts taken for one
ModuloDefault(e) == IF e \in DefaultTexts THEN "<default>" ELSE e

\* how a login or register that received response r fails before it sets
\* the session ("none": it does not)
FailureOf(r) ==
    IF ~r.transport THEN "transport"
    ELSE IF ~r.json THEN "json"
    ELSE IF ~ResponseOk(r) THEN "status"
    ELSE IF LacksStringField(r.body) THEN "format"
    ELSE "none"

\* C21: register and login handle the outcome identically: a completed
\* login or register (alone in flight) ends in the user, token, loading,
\* store contents, navigation reset and error (the default text apart) that
\* one function of the starting state, the response and the store's
\* behaviour gives, whichever of the two it was.
C21_RegisterAsLogin ==
    (Quiescent /\ last.kind \in Authenticating /\ ~last.overlapped)
        => LET r == last.resp
               written == [last.preStore EXCEPT ![TOKEN_KEY] = r.body.token]
           IN  /\ loading = FALSE
               /\ IF FailureOf(r) # "none"
                  THEN /\ last.cause = FailureOf(r)
                       /\ user = last.preUser
                       /\ token = last.preToken
                       /\ store = last.preStore
                       /\ last.reset = NoReset
                       /\ ModuloDefault(error) =
                            CASE last.cause = "transport" -> NetworkErrorMessage
                              [] last.cause = "json" -> JsonErrorMessage
                              [] last.cause = "status" ->
                                    ModuloDefault(Coalesce(r.body.message,
                                                           loginFailedMessage))
                              [] last.cause = "format" -> "<default>"
                  ELSE /\ last.cause \in {"storage", "none"}
                       /\ user = ResponseUser(r)
                       /\ token = r.body.token
                       /\ IF last.cause = "storage"
                          THEN /\ store = IF last.wrote THEN written ELSE last.preStore
                               /\ last.reset = NoReset
                               /\ error = StorageErrorMessage
                          ELSE /\ store = [written EXCEPT ![USER_KEY] =
                                              JSONStringify(ResponseUser(r))]
                               /\ last.reset.route = "Home"
                               /\ error = Null

\* a register answered with a complete success response has ended as a
\* login does: session set, both keys written, reset to Home
C21_Witness ==
    /\ Quiescent
    /\ last.kind = "register"
    /\ ~last.overlapped
    /\ last.resp = RespOkA
    /\ last.cause = "none"
    /\ token = "tkn"
    /\ user = MkUser("1", "A", "a@b.com")
    /\ store[TOKEN_KEY] = "tkn"
    /\ last.reset.route = "Home"

\* C22: the token key and the user key are created and destroyed together:
\* after any login, register, logout or restore has completed, with or
\* without store failures, the store holds both keys or neither.
C22_KeysTogether ==
    (Quiescent /\ last.kind # "none") => (StoreHoldsBoth \/ StoreHoldsNeither)

\* the number of digits of a phone string
DigitCount(phone) == Cardinality({i \in 1..Len(phone.chars) : IsDigit(phone.chars[i])})

\* C23: isPhoneNumberValid accepts a phone exactly when it has 10 to 15
\* digits once the other characters are removed, and rejects null and the
\* empty string, whichever of the two definitions is called; and
\* handleSubmit reports the phone exactly when it is non-empty and has not
\* 10 to 15 digits.
C23_PhoneTenToFifteenDigits ==
    LET accepted == /\ ~form.phone.isNull
                    /\ DigitCount(form.phone) >= 10
                    /\ DigitCount(form.phone) <= 15
    IN  /\ form.called # "none" => (form.valid <=> accepted)
        /\ form.called = "handleSubmit"
            => ((form.errors # {}) <=> (form.phone.chars # <<>> /\ ~accepted))

\* the fixed default text of the failure of a request of login or register
FailedMessage(kind) ==
    IF kind = "login" THEN loginFailedMessage ELSE registerFailedMessage

\* C24: the message of the error of a login or register answered with a
\* non-success status is the message field of the body when that field is
\* present and non-empty, and the fixed default text otherwise; an empty
\* message of the server never becomes the error shown.
C24_EmptyMessageGetsDefault ==
    (Quiescent /\ last.kind \in Authenticating /\ ~last.overlapped
        /\ last.cause = "status")
        => /\ error = IF Truthy(last.resp.body.message)
                      THEN last.resp.body.message
                      ELSE FailedMessage(last.kind)
           /\ error # ""

\* C25: a login or register answered with a non-success status whose body
\* is not JSON fails by its status, and the error shown is the raw text of
\* the response, not an error of parsing the body.
C25_RawTextIsMessage ==
    (Quiescent /\ last.kind \in Authenticating /\ ~last.overlapped
        /\ last.resp.transport /\ ~last.resp.json /\ ~ResponseOk(last.resp))
        => /\ last.cause = "status"
           /\ error = last.resp.text
           /\ error # JsonErrorMessage

\* C26: in every reachable state token is non-null exactly when user is
\* non-null.
C26_TokenIffUser ==
    (token # Null) <=> (user # NoUser)

\* C27: loading is true in every state in which a restore, login, register
\* or logout has started and not completed, also when two of them overlap,
\* and false once all have completed.
C27_LoadingWhileInFlight ==
    loading <=> (ops # <<>>)

\* a loadStoredAuth has started and not completed
RestoreInFlight == \E j \in 1..Len(ops) : ops[j].kind = "restore"

\* C28: a started loadStoredAuth always terminates, and at its termination
\* loading is false, whether the reads of the store succeed, return nothing
\* or reject; until then the spinner is what is mounted, and no login,
\* register or logout is in flight beside it.
C28_RestoreTerminates ==
    /\ [](RestoreInFlight =>
            (loading /\ view = "spinner" /\ Len(ops) = 1))
    /\ [][(RestoreInFlight /\ ~RestoreInFlight') => ~loading']_vars
    /\ (RestoreInFlight ~> (~RestoreInFlight /\ ~loading))

\* a restore whose reads rejected has terminated with its error, the
\* spinner is gone, and the first call, made from the mounted screen, is in
\* flight
C28_Witness ==
    /\ ~RestoreInFlight
    /\ view = "auth"
    /\ events = 1
    /\ Len(ops) = 1 /\ ops[1].kind \in Mutating /\ ops[1].hadError

\* C29: when calls of loadUsers overlap, once all of them have completed
\* users and error are those of the call started last (its list with no
\* error, or its error), whatever the order in which they settled; and
\* loading is true as long as a call is pending.
C29_LatestLoadWins ==
    /\ (userContext.loads = <<>> /\ userContext.latest.done)
        => IF userContext.latest.threw
           THEN userContext.error = userContext.latest.message
           ELSE /\ userContext.users = userContext.latest.data
                /\ userContext.error = Null
    /\ (userContext.loads # <<>>) => userContext.loading

\* C30: whenever UserDetailScreen is not loading and shows no error, the
\* user it displays is the user of the current userId route parameter: a
\* fetch started for an earlier userId that settles after the parameter has
\* changed does not replace it.
C30_DetailShowsCurrentUser ==
    (/\ detail.mounted
     /\ ~detail.loading
     /\ ~Truthy(detail.error)
     /\ detail.user # NoUser)
        => detail.user.id = detail.userId

====
